---- MODULE Spec2Model ----
(***************************************************************************)
(* Model of spotify_liked_songs (src/src/main.rs): one run of main reads   *)
(* credentials.json, downloads the stored snapshot, authorizes, drains the *)
(* paginated saved-tracks stream, normalizes and sorts the tracks, renders *)
(* them as JSON lines, prints a diff against the old snapshot and uploads  *)
(* the new snapshot.  Text is modelled as a sequence of bytes.             *)
(***************************************************************************)
EXTENDS Integers, Sequences, FiniteSets

(* ---------------------------- bounds ----------------------------------- *)

\* Largest number of saved tracks the library holds at any time.
MaxLib == 2

\* Number of times the user likes or unlikes a track during the model's runs.
MaxChanges == 1

\* The invocations of the program: a run and the next one, or two runs that
\* overlap.
Runs == {1, 2}

(* ---------------------------- strings ---------------------------------- *)

\* std::cmp::Ordering as -1 (Less), 0 (Equal), 1 (Greater).
IntCmp(a, b) == IF a < b THEN -1 ELSE IF a > b THEN 1 ELSE 0

\* Ordering::then: the first ordering unless it is Equal.
Then(o1, o2) == IF o1 # 0 THEN o1 ELSE o2

RECURSIVE StrCmp(_, _)
\* String::cmp: lexicographic comparison of the bytes.
StrCmp(a, b) ==
    IF a = <<>> /\ b = <<>> THEN 0
    ELSE IF a = <<>> THEN -1
    ELSE IF b = <<>> THEN 1
    ELSE IF Head(a) # Head(b) THEN IntCmp(Head(a), Head(b))
    ELSE StrCmp(Tail(a), Tail(b))

RECURSIVE InsertString(_, _)
\* Places x behind every element that is not greater than it.
InsertString(x, s) ==
    IF s = <<>> THEN <<x>>
    ELSE IF StrCmp(x, Head(s)) < 0 THEN <<x>> \o s
    ELSE <<Head(s)>> \o InsertString(x, Tail(s))

RECURSIVE SortStrings(_)
\* Vec<String>::sort (stable), as an insertion sort from the left.
SortStrings(s) ==
    IF s = <<>> THEN <<>>
    ELSE InsertString(s[Len(s)], SortStrings(SubSeq(s, 1, Len(s) - 1)))

(* ---------------------------- normalizer ------------------------------- *)

\* DateTime<Utc>::timestamp: whole seconds of a time given in milliseconds.
Timestamp(ms) == ms \div 1000

\* The mutation of from_saved_track that forgets to sort the artist names.
from_saved_track_unsorted(saved_track) ==
    [song_name    |-> saved_track.name,
     added_at     |-> Timestamp(saved_track.added_at),
     artist_names |-> saved_track.artists,
     album_name   |-> saved_track.album]

\* TrimmedTrackInfo::from_saved_track.
from_saved_track(saved_track) ==
    [song_name    |-> saved_track.name,
     added_at     |-> Timestamp(saved_track.added_at),
     artist_names |-> SortStrings(saved_track.artists),
     album_name   |-> saved_track.album]

(* ---------------------------- sort of the list ------------------------- *)

\* The mutation of the comparator that forgets the song_name tie-break.
liked_songs_cmp_no_tiebreak(a, b) == IntCmp(a.added_at, b.added_at)

\* The closure given to liked_songs.sort_by.
liked_songs_cmp(a, b) ==
    Then(IntCmp(a.added_at, b.added_at), StrCmp(a.song_name, b.song_name))

RECURSIVE InsertTrack(_, _)
InsertTrack(x, s) ==
    IF s = <<>> THEN <<x>>
    ELSE IF liked_songs_cmp(x, Head(s)) < 0 THEN <<x>> \o s
    ELSE <<Head(s)>> \o InsertTrack(x, Tail(s))

RECURSIVE sort_by(_)
\* Vec::sort_by is a stable sort: equal elements keep their input order.
sort_by(s) ==
    IF s = <<>> THEN <<>>
    ELSE InsertTrack(s[Len(s)], sort_by(SubSeq(s, 1, Len(s) - 1)))

(* ---------------------------- serializer ------------------------------- *)

RECURSIVE Digits(_)
\* Decimal digits of a natural number.
Digits(n) == IF n < 10 THEN <<48 + n>> ELSE Digits(n \div 10) \o <<48 + (n % 10)>>

\* serde_json's rendering of an i64.
JsonInt(n) == IF n < 0 THEN <<45>> \o Digits(-n) ELSE Digits(n)

RECURSIVE JsonEscape(_)
\* serde_json's escaping of the quote, the backslash and the newline.
JsonEscape(s) ==
    IF s = <<>> THEN <<>>
    ELSE (CASE Head(s) = 34 -> <<92, 34>>
            [] Head(s) = 92 -> <<92, 92>>
            [] Head(s) = 10 -> <<92, 110>>
            [] OTHER -> <<Head(s)>>) \o JsonEscape(Tail(s))

JsonString(s) == <<34>> \o JsonEscape(s) \o <<34>>

RECURSIVE JsonStringList(_)
\* The elements of a JSON array of strings, comma separated.
JsonStringList(s) ==
    IF s = <<>> THEN <<>>
    ELSE IF Len(s) = 1 THEN JsonString(s[1])
    ELSE JsonString(Head(s)) \o <<44>> \o JsonStringList(Tail(s))

KeySongName == <<115, 111, 110, 103, 95, 110, 97, 109, 101>>
KeyAddedAt == <<97, 100, 100, 101, 100, 95, 97, 116>>
KeyArtistNames == <<97, 114, 116, 105, 115, 116, 95, 110, 97, 109, 101, 115>>
KeyAlbumName == <<97, 108, 98, 117, 109, 95, 110, 97, 109, 101>>

\* serde_json::to_string of a TrimmedTrackInfo: the fields in declaration order.
to_string(item) ==
    <<123>> \o JsonString(KeySongName) \o <<58>> \o JsonString(item.song_name)
    \o <<44>> \o JsonString(KeyAddedAt) \o <<58>> \o JsonInt(item.added_at)
    \o <<44>> \o JsonString(KeyArtistNames) \o <<58, 91>>
    \o JsonStringList(item.artist_names) \o <<93>>
    \o <<44>> \o JsonString(KeyAlbumName) \o <<58>> \o JsonString(item.album_name)
    \o <<125>>

RECURSIVE Join(_)
\* [String]::join("\n").
Join(lines) ==
    IF lines = <<>> THEN <<>>
    ELSE IF Len(lines) = 1 THEN lines[1]
    ELSE Head(lines) \o <<10>> \o Join(Tail(lines))

\* The snapshot text main builds from the sorted list.
snapshot_text(list) == Join([i \in 1..Len(list) |-> to_string(list[i])]) \o <<10>>

(* ---------------------------- diff ------------------------------------- *)

\* The lines of a text, each with its terminator "\n"; what follows the last
\* terminator, if anything, is a line too.
Lines(text) ==
    LET ends == {i \in 1..Len(text) : text[i] = 10 \/ i = Len(text)}
        first(e) == IF \E j \in ends : j < e
                    THEN 1 + CHOOSE j \in ends :
                               j < e /\ \A k \in ends : k < e => k <= j
                    ELSE 1
    IN  [n \in 1..Cardinality(ends) |->
           LET e == CHOOSE e \in ends : Cardinality({j \in ends : j <= e}) = n
           IN  SubSeq(text, first(e), e)]

RECURSIVE Lcs(_, _)
\* Length of a longest common subsequence of two sequences of lines.
Lcs(a, b) ==
    IF a = <<>> \/ b = <<>> THEN 0
    ELSE IF Head(a) = Head(b) THEN 1 + Lcs(Tail(a), Tail(b))
    ELSE LET x == Lcs(Tail(a), b)
             y == Lcs(a, Tail(b))
         IN  IF x > y THEN x ELSE y

\* diffy::create_patch(old, new): the numbers of deleted and inserted lines of
\* a minimal line diff.
create_patch(old, new) ==
    LET n == Lcs(Lines(old), Lines(new))
    IN  [removed |-> Len(Lines(old)) - n, added |-> Len(Lines(new)) - n]

(* ---------------------------- the environment -------------------------- *)

\* The saved tracks the service can hold: name, added_at in milliseconds, the
\* artists in the order the API returns them, and the album.  The names are
\* "Z", "A" and "Ab", the albums "X" and "Y" followed by a quote.
SavedTracks ==
    { [name |-> <<90>>, added_at |-> 100500, artists |-> << <<66>>, <<65>> >>,
       album |-> <<88>>],
      [name |-> <<90>>, added_at |-> 100500, artists |-> << <<65>>, <<66>> >>,
       album |-> <<88>>],
      [name |-> <<65>>, added_at |-> 100000, artists |-> << <<65>> >>,
       album |-> <<88>>],
      [name |-> <<65>>, added_at |-> 100000, artists |-> << <<65>> >>,
       album |-> <<89, 34>>],
      [name |-> <<65, 98>>, added_at |-> 99999,
       artists |-> << <<66>>, <<65, 98>>, <<65>> >>, album |-> <<88>>] }

Libraries == { l \in SUBSET SavedTracks : Cardinality(l) <= MaxLib }

\* A text that is not there: the missing object, a variable not yet assigned.
Null == << -1 >>

\* The object before the first run: missing, or created empty by the user.
InitialObjects == {Null, <<>>}

\* Nothing printed yet.
NoPatch == [removed |-> -1, added |-> -1]

\* What credentials.json can be when a run reads it.
CredentialFiles == {"ok", "missing", "unreadable", "not_json", "no_client_secret"}

(* ---------------------------- state ------------------------------------ *)

VARIABLES
    library,          \* the user's saved tracks at the service
    changes,          \* how often the user has changed the library
    object,           \* body of liked-songs.txt in the bucket, or Null
    pc,               \* pc[r]: where run r of main stands
    old_liked_songs,  \* main's old_liked_songs
    stream,           \* the saved tracks the stream has still to deliver
    fetched,          \* the saved tracks the stream has delivered, in order
    liked_songs,      \* get_liked_songs_list's liked_songs
    new_liked_songs,  \* main's new_liked_songs
    printed,          \* what diff_liked_songs printed
    log,              \* the operations the run started, in order
    failed,           \* the operation whose unwrap panicked, or "none"
    objectAtStart,    \* the object when the run started
    collection,       \* the library when the run opened its stream
    fetchOrder,       \* the runs in the order their stream was opened
    uploadOrder       \* the runs in the order their upload succeeded

vars == <<library, changes, object, pc, old_liked_songs, stream, fetched,
          liked_songs, new_liked_songs, printed, log, failed, objectAtStart,
          collection, fetchOrder, uploadOrder>>

envVars == <<library, changes>>
fetchVars == <<stream, fetched, liked_songs>>
orderVars == <<collection, fetchOrder, uploadOrder>>

Terminated == {"done", "panicked"}

Init ==
    /\ library \in Libraries
    /\ changes = 0
    /\ object \in InitialObjects
    /\ pc = [r \in Runs |-> "idle"]
    /\ old_liked_songs = [r \in Runs |-> Null]
    /\ stream = [r \in Runs |-> {}]
    /\ fetched = [r \in Runs |-> <<>>]
    /\ liked_songs = [r \in Runs |-> <<>>]
    /\ new_liked_songs = [r \in Runs |-> Null]
    /\ printed = [r \in Runs |-> NoPatch]
    /\ log = [r \in Runs |-> <<>>]
    /\ failed = [r \in Runs |-> "none"]
    /\ objectAtStart = [r \in Runs |-> Null]
    /\ collection = [r \in Runs |-> {}]
    /\ fetchOrder = <<>>
    /\ uploadOrder = <<>>

(* ---------------------------- the user --------------------------------- *)

\* The user likes a track.
LikeTrack ==
    /\ changes < MaxChanges
    /\ \E t \in SavedTracks \ library :
         /\ library \cup {t} \in Libraries
         /\ library' = library \cup {t}
    /\ changes' = changes + 1
    /\ UNCHANGED <<object, pc, old_liked_songs, fetchVars, new_liked_songs,
                   printed, log, failed, objectAtStart, orderVars>>

\* The user unlikes a track.
UnlikeTrack ==
    /\ changes < MaxChanges
    /\ \E t \in library : library' = library \ {t}
    /\ changes' = changes + 1
    /\ UNCHANGED <<object, pc, old_liked_songs, fetchVars, new_liked_songs,
                   printed, log, failed, objectAtStart, orderVars>>

(* ---------------------------- main ------------------------------------- *)

\* An unwrap in the operation op panics: the process ends and with it the
\* stream and the list under construction.
Panic(r, op) ==
    /\ pc' = [pc EXCEPT ![r] = "panicked"]
    /\ failed' = [failed EXCEPT ![r] = op]
    /\ stream' = [stream EXCEPT ![r] = {}]
    /\ fetched' = [fetched EXCEPT ![r] = <<>>]
    /\ liked_songs' = [liked_songs EXCEPT ![r] = <<>>]

\* The user starts the program while no earlier run is still going.
main_start(r) ==
    /\ pc[r] = "idle"
    /\ \A q \in Runs : q < r => pc[q] \in Terminated
    /\ pc' = [pc EXCEPT ![r] = "creds"]
    /\ objectAtStart' = [objectAtStart EXCEPT ![r] = object]
    /\ UNCHANGED <<envVars, object, old_liked_songs, fetchVars, new_liked_songs,
                   printed, log, failed, orderVars>>

\* The user starts the program, whatever the runs started before are doing.
main_start_concurrently(r) ==
    /\ pc[r] = "idle"
    /\ \A q \in Runs : q < r => pc[q] # "idle"
    /\ pc' = [pc EXCEPT ![r] = "creds"]
    /\ objectAtStart' = [objectAtStart EXCEPT ![r] = object]
    /\ UNCHANGED <<envVars, object, old_liked_songs, fetchVars, new_liked_songs,
                   printed, log, failed, orderVars>>

\* The mutation of CredentialsFile_read that goes on without credentials.
CredentialsFile_read_lenient(r) ==
    /\ pc[r] = "creds"
    /\ log' = [log EXCEPT ![r] = Append(@, "creds")]
    /\ \E file \in CredentialFiles :
         /\ pc' = [pc EXCEPT ![r] = "download"]
         /\ failed' = [failed EXCEPT ![r] = IF file = "ok" THEN "none" ELSE "creds"]
    /\ UNCHANGED <<envVars, object, old_liked_songs, fetchVars, new_liked_songs,
                   printed, objectAtStart, orderVars>>

\* The mutation of CredentialsFile_read after which main fetches the library
\* before it downloads the old snapshot.
CredentialsFile_read_then_fetch(r) ==
    /\ pc[r] = "creds"
    /\ log' = [log EXCEPT ![r] = Append(@, "creds")]
    /\ \E file \in CredentialFiles :
         IF file = "ok"
         THEN pc' = [pc EXCEPT ![r] = "authorize"] /\ UNCHANGED <<failed, fetchVars>>
         ELSE Panic(r, "creds")
    /\ UNCHANGED <<envVars, object, old_liked_songs, new_liked_songs,
                   printed, objectAtStart, orderVars>>

\* CredentialsFile::read: every unwrap panics unless the file is there, can be
\* read and parses with both fields.
CredentialsFile_read(r) ==
    /\ pc[r] = "creds"
    /\ log' = [log EXCEPT ![r] = Append(@, "creds")]
    /\ \E file \in CredentialFiles :
         IF file = "ok"
         THEN pc' = [pc EXCEPT ![r] = "download"] /\ UNCHANGED <<failed, fetchVars>>
         ELSE Panic(r, "creds")
    /\ UNCHANGED <<envVars, object, old_liked_songs, new_liked_songs,
                   printed, objectAtStart, orderVars>>

\* The mutation of download_current_liked_songs that takes a failed download
\* for an empty snapshot.
download_current_liked_songs_or_empty(r) ==
    /\ pc[r] = "download"
    /\ log' = [log EXCEPT ![r] = Append(@, "download")]
    /\ \E response \in {"ok", "error"} :
         IF response = "ok" /\ object # Null
         THEN /\ old_liked_songs' = [old_liked_songs EXCEPT ![r] = object]
              /\ UNCHANGED failed
         ELSE /\ old_liked_songs' = [old_liked_songs EXCEPT ![r] = <<>>]
              /\ failed' = [failed EXCEPT ![r] = "download"]
    /\ pc' = [pc EXCEPT ![r] = "authorize"]
    /\ UNCHANGED <<envVars, object, fetchVars, new_liked_songs, printed,
                   objectAtStart, orderVars>>

\* download_current_liked_songs: get_object, collect the body, decode it; the
\* unwraps panic when the object is missing or the request fails.
download_current_liked_songs(r) ==
    /\ pc[r] = "download"
    /\ log' = [log EXCEPT ![r] = Append(@, "download")]
    /\ \E response \in {"ok", "error"} :
         IF response = "ok" /\ object # Null
         THEN /\ old_liked_songs' = [old_liked_songs EXCEPT ![r] = object]
              /\ pc' = [pc EXCEPT ![r] = "authorize"]
              /\ UNCHANGED <<failed, fetchVars>>
         ELSE /\ Panic(r, "download")
              /\ UNCHANGED old_liked_songs
    /\ UNCHANGED <<envVars, object, new_liked_songs, printed, objectAtStart,
                   orderVars>>

\* get_liked_songs_list up to the creation of the stream: the authorization
\* handshake, whose unwrap panics when it fails or is denied.  The stream is
\* taken to deliver the collection as it is when the stream is created.
prompt_for_token(r) ==
    /\ pc[r] = "authorize"
    /\ log' = [log EXCEPT ![r] = Append(@, "authorize")]
    /\ \E granted \in BOOLEAN :
         IF granted
         THEN /\ stream' = [stream EXCEPT ![r] = library]
              /\ collection' = [collection EXCEPT ![r] = library]
              /\ fetchOrder' = Append(fetchOrder, r)
              /\ pc' = [pc EXCEPT ![r] = "fetch"]
              /\ UNCHANGED <<failed, fetched, liked_songs>>
         ELSE /\ Panic(r, "authorize")
              /\ UNCHANGED <<collection, fetchOrder>>
    /\ UNCHANGED <<envVars, object, old_liked_songs, new_liked_songs, printed,
                   objectAtStart, uploadOrder>>

\* stream.try_next() yields Some(item): the item is normalized and pushed.
\* The stream delivers the saved tracks in an order of the service's choice.
try_next_some(r) ==
    /\ pc[r] = "fetch"
    /\ \E item \in stream[r] :
         /\ stream' = [stream EXCEPT ![r] = @ \ {item}]
         /\ fetched' = [fetched EXCEPT ![r] = Append(@, item)]
         /\ liked_songs' = [liked_songs EXCEPT ![r] = Append(@, from_saved_track(item))]
    /\ log' = [log EXCEPT ![r] = Append(@, "page")]
    /\ UNCHANGED <<envVars, object, pc, old_liked_songs, new_liked_songs, printed,
                   failed, objectAtStart, orderVars>>

\* The mutation of try_next_err that goes on with what was fetched so far.
try_next_err_partial(r) ==
    /\ pc[r] = "fetch"
    /\ stream[r] # {}
    /\ log' = [log EXCEPT ![r] = Append(@, "page")]
    /\ failed' = [failed EXCEPT ![r] = "fetch"]
    /\ liked_songs' = [liked_songs EXCEPT ![r] = sort_by(@)]
    /\ new_liked_songs' =
         [new_liked_songs EXCEPT ![r] = snapshot_text(sort_by(liked_songs[r]))]
    /\ stream' = [stream EXCEPT ![r] = {}]
    /\ fetched' = [fetched EXCEPT ![r] = <<>>]
    /\ pc' = [pc EXCEPT ![r] = "diff"]
    /\ UNCHANGED <<envVars, object, old_liked_songs, printed, objectAtStart,
                   orderVars>>

\* stream.try_next() yields an error while items are outstanding: unwrap panics.
try_next_err(r) ==
    /\ pc[r] = "fetch"
    /\ stream[r] # {}
    /\ log' = [log EXCEPT ![r] = Append(@, "page")]
    /\ Panic(r, "fetch")
    /\ UNCHANGED <<envVars, object, old_liked_songs, new_liked_songs, printed,
                   objectAtStart, orderVars>>

\* stream.try_next() yields None: the list is sorted and returned, which drops
\* the stream, and main renders the list as the new snapshot text.
try_next_none(r) ==
    /\ pc[r] = "fetch"
    /\ stream[r] = {}
    /\ log' = [log EXCEPT ![r] = Append(@, "fetched")]
    /\ liked_songs' = [liked_songs EXCEPT ![r] = sort_by(@)]
    /\ new_liked_songs' =
         [new_liked_songs EXCEPT ![r] = snapshot_text(sort_by(liked_songs[r]))]
    /\ fetched' = [fetched EXCEPT ![r] = <<>>]
    /\ pc' = [pc EXCEPT ![r] = "diff"]
    /\ UNCHANGED <<envVars, object, old_liked_songs, stream, printed, failed,
                   objectAtStart, orderVars>>

\* The mutation of diff_liked_songs after which an empty diff ends the run.
diff_liked_songs_skip_unchanged(r) ==
    /\ pc[r] = "diff"
    /\ log' = [log EXCEPT ![r] = Append(@, "diff")]
    /\ printed' = [printed EXCEPT ![r] =
                     create_patch(old_liked_songs[r], new_liked_songs[r])]
    /\ pc' = [pc EXCEPT ![r] =
                IF old_liked_songs[r] = new_liked_songs[r] THEN "done" ELSE "upload"]
    /\ UNCHANGED <<envVars, object, old_liked_songs, fetchVars, new_liked_songs,
                   failed, objectAtStart, orderVars>>

\* diff_liked_songs: the patch from the old to the new text is printed.
diff_liked_songs(r) ==
    /\ pc[r] = "diff"
    /\ log' = [log EXCEPT ![r] = Append(@, "diff")]
    /\ printed' = [printed EXCEPT ![r] =
                     create_patch(old_liked_songs[r], new_liked_songs[r])]
    /\ pc' = [pc EXCEPT ![r] = "upload"]
    /\ UNCHANGED <<envVars, object, old_liked_songs, fetchVars, new_liked_songs,
                   failed, objectAtStart, orderVars>>

\* The mutation of upload_liked_songs that writes only when the object is
\* still the one the run downloaded.
upload_liked_songs_if_unmodified(r) ==
    /\ pc[r] = "upload"
    /\ log' = [log EXCEPT ![r] = Append(@, "upload")]
    /\ \E response \in {"ok", "error"} :
         IF response = "ok"
         THEN /\ object' = IF object = old_liked_songs[r]
                           THEN new_liked_songs[r] ELSE object
              /\ uploadOrder' = Append(uploadOrder, r)
              /\ pc' = [pc EXCEPT ![r] = "done"]
              /\ UNCHANGED <<failed, fetchVars>>
         ELSE /\ Panic(r, "upload")
              /\ UNCHANGED <<object, uploadOrder>>
    /\ UNCHANGED <<envVars, old_liked_songs, new_liked_songs, printed,
                   objectAtStart, collection, fetchOrder>>

\* upload_liked_songs: put_object replaces the body of the object; the unwrap
\* panics when the request fails.
upload_liked_songs(r) ==
    /\ pc[r] = "upload"
    /\ log' = [log EXCEPT ![r] = Append(@, "upload")]
    /\ \E response \in {"ok", "error"} :
         IF response = "ok"
         THEN /\ object' = new_liked_songs[r]
              /\ uploadOrder' = Append(uploadOrder, r)
              /\ pc' = [pc EXCEPT ![r] = "done"]
              /\ UNCHANGED <<failed, fetchVars>>
         ELSE /\ Panic(r, "upload")
              /\ UNCHANGED <<object, uploadOrder>>
    /\ UNCHANGED <<envVars, old_liked_songs, new_liked_songs, printed,
                   objectAtStart, collection, fetchOrder>>

(* ---------------------------- specifications --------------------------- *)

\* Runs of the program one after the other.
Next ==
    \/ LikeTrack
    \/ UnlikeTrack
    \/ \E r \in Runs : main_start(r)
    \/ \E r \in Runs : CredentialsFile_read(r)
    \/ \E r \in Runs : download_current_liked_songs(r)
    \/ \E r \in Runs : prompt_for_token(r)
    \/ \E r \in Runs : try_next_some(r)
    \/ \E r \in Runs : try_next_err(r)
    \/ \E r \in Runs : try_next_none(r)
    \/ \E r \in Runs : diff_liked_songs(r)
    \/ \E r \in Runs : upload_liked_songs(r)

Spec == Init /\ [][Next]_vars

\* Runs of the program that may overlap.
NextConcurrent ==
    \/ LikeTrack
    \/ UnlikeTrack
    \/ \E r \in Runs : main_start_concurrently(r)
    \/ \E r \in Runs : CredentialsFile_read(r)
    \/ \E r \in Runs : download_current_liked_songs(r)
    \/ \E r \in Runs : prompt_for_token(r)
    \/ \E r \in Runs : try_next_some(r)
    \/ \E r \in Runs : try_next_err(r)
    \/ \E r \in Runs : try_next_none(r)
    \/ \E r \in Runs : diff_liked_songs(r)
    \/ \E r \in Runs : upload_liked_songs(r)

SpecConcurrent == Init /\ [][NextConcurrent]_vars

(* ---------------------------- helpers of the properties ---------------- *)

Range(s) == {s[i] : i \in 1..Len(s)}

\* Number of times x occurs in the sequence s.
Count(s, x) == Cardinality({i \in 1..Len(s) : s[i] = x})

\* s and t hold the same elements with the same multiplicities.
IsPermutation(s, t) ==
    /\ Len(s) = Len(t)
    /\ \A x \in Range(s) \cup Range(t) : Count(s, x) = Count(t, x)

\* The run has got its list back from get_liked_songs_list.
Returned(r) == new_liked_songs[r] # Null

\* No run after r has been started.
LatestRun(r) == \A q \in Runs : q > r => pc[q] = "idle"

\* The operations that go to the network.
NetworkOps == {"download", "authorize", "page", "fetched", "upload"}

(* ---------------------------- C1 --------------------------------------- *)

\* C1: the list get_liked_songs_list returns is ordered by added_at ascending
\* and, among equal added_at, by song_name ascending; the lines of the new
\* snapshot are the JSON renderings of its records in that order.
C1_ListOrdered ==
    \A r \in Runs : Returned(r) =>
        LET list == liked_songs[r] IN
        /\ \A i \in 1..(Len(list) - 1) :
             \/ list[i].added_at < list[i + 1].added_at
             \/ /\ list[i].added_at = list[i + 1].added_at
                /\ StrCmp(list[i].song_name, list[i + 1].song_name) <= 0
        /\ list # <<>> =>
             Lines(new_liked_songs[r]) =
                 [i \in 1..Len(list) |-> to_string(list[i]) \o <<10>>]

\* A returned list in which "A" stands before "Z" at the same added_at.
C1_Witness ==
    \E r \in Runs :
        /\ Returned(r)
        /\ \E i \in 1..(Len(liked_songs[r]) - 1) :
             /\ liked_songs[r][i].added_at = liked_songs[r][i + 1].added_at
             /\ liked_songs[r][i].song_name = <<65>>
             /\ liked_songs[r][i + 1].song_name = <<90>>

(* ---------------------------- C2 --------------------------------------- *)

\* C2: two runs whose streams delivered the same saved tracks, in whatever
\* order, build byte-identical snapshot texts.
C2_OrderIndependent ==
    \A r1, r2 \in Runs :
        (Returned(r1) /\ Returned(r2) /\ collection[r1] = collection[r2])
            => new_liked_songs[r1] = new_liked_songs[r2]

(* ---------------------------- C3 --------------------------------------- *)

\* C3: a run whose snapshot download fails stops there: no authorization, no
\* page fetch, no diff and no upload, and the object is what it was.
C3_DownloadFailureAborts ==
    \A r \in Runs : failed[r] = "download" =>
        /\ pc[r] = "panicked"
        /\ log[r] = <<"creds", "download">>
        /\ Count(fetchOrder, r) = 0 /\ Count(uploadOrder, r) = 0
        /\ ~Returned(r)
        /\ printed[r] = NoPatch
        /\ LatestRun(r) => object = objectAtStart[r]

\* A run that has panicked in the download because the object is missing.
C3_Witness ==
    \E r \in Runs :
        /\ failed[r] = "download"
        /\ pc[r] = "panicked"
        /\ objectAtStart[r] = Null

(* ---------------------------- C4 --------------------------------------- *)

\* C4: a run whose credentials.json cannot be loaded stops in
\* CredentialsFile::read and has started no network operation.
C4_CredentialFailureAborts ==
    \A r \in Runs : failed[r] = "creds" =>
        /\ pc[r] = "panicked"
        /\ \A i \in 1..Len(log[r]) : log[r][i] \notin NetworkOps
        /\ old_liked_songs[r] = Null
        /\ ~Returned(r)

\* A run that has panicked reading the credentials.
C4_Witness == \E r \in Runs : failed[r] = "creds" /\ pc[r] = "panicked"

(* ---------------------------- C5 --------------------------------------- *)

\* C5: a run that got its list uploads once, right after printing the diff and
\* whatever the diff is: it never ends without having tried the upload, and a
\* successful upload stores the text that was diffed.
C5_UploadOnceAfterDiff ==
    \A r \in Runs : (Returned(r) /\ failed[r] \in {"none", "upload"}) =>
        /\ Count(log[r], "upload") <= 1
        /\ Count(log[r], "diff") <= 1
        /\ \A i \in 1..Len(log[r]) : log[r][i] = "upload" =>
               /\ i > 1 /\ log[r][i - 1] = "diff"
               /\ printed[r] = create_patch(old_liked_songs[r], new_liked_songs[r])
        /\ pc[r] \in Terminated => Count(log[r], "upload") = 1
        /\ pc[r] = "done" => Count(uploadOrder, r) = 1
        /\ (pc[r] = "done" /\ uploadOrder[Len(uploadOrder)] = r) =>
               object = new_liked_songs[r]

\* A finished run whose diff was empty and that uploaded all the same.
C5_Witness ==
    \E r \in Runs :
        /\ pc[r] = "done"
        /\ old_liked_songs[r] = new_liked_songs[r]
        /\ collection[r] # {}
        /\ printed[r] = [removed |-> 0, added |-> 0]
        /\ Count(log[r], "upload") = 1

(* ---------------------------- C6 --------------------------------------- *)

\* C6: when a run has finished and the next run fetches the same collection,
\* the next run's new text is the text it downloaded, its diff has no added
\* and no removed line, and its upload leaves the object as it was.
C6_Idempotent ==
    \A r \in Runs : (r + 1 \in Runs /\ pc[r] = "done" /\ Returned(r + 1)
                     /\ collection[r] = collection[r + 1]) =>
        /\ new_liked_songs[r + 1] = old_liked_songs[r + 1]
        /\ printed[r + 1] \in {NoPatch, [removed |-> 0, added |-> 0]}
        /\ (pc[r + 1] = "done" /\ LatestRun(r + 1)) => object = old_liked_songs[r + 1]

(* ---------------------------- C7 --------------------------------------- *)

\* The log entry of the operation a run failed in.
FailedOp(r) == IF failed[r] = "fetch" THEN "page" ELSE failed[r]

\* C7: a failure of the credential loading, the download, the authorization
\* or a page fetch ends the run at once: the failed operation is the last one
\* started, nothing was retried, no text was built from the part fetched,
\* nothing was printed or uploaded and the object is what it was.
C7_FailureIsFatal ==
    \A r \in Runs :
        /\ failed[r] \in {"creds", "download", "authorize", "fetch"} =>
             /\ pc[r] = "panicked"
             /\ log[r] # <<>> /\ log[r][Len(log[r])] = FailedOp(r)
             /\ \A op \in {"creds", "download", "authorize", "fetched"} :
                    Count(log[r], op) <= 1
             /\ Count(log[r], "diff") = 0 /\ Count(log[r], "upload") = 0
             /\ ~Returned(r)
             /\ printed[r] = NoPatch
             /\ Count(uploadOrder, r) = 0
             /\ LatestRun(r) => object = objectAtStart[r]
        /\ (Returned(r) /\ pc[r] # "panicked") =>
             /\ Len(liked_songs[r]) = Cardinality(collection[r])
             /\ Range(liked_songs[r]) = {from_saved_track(t) : t \in collection[r]}

\* A run that has panicked in a page fetch after a page had arrived.
C7_Witness ==
    \E r \in Runs :
        /\ failed[r] = "fetch"
        /\ pc[r] = "panicked"
        /\ Count(log[r], "page") >= 2
        /\ objectAtStart[r] # Null

(* ---------------------------- C8 --------------------------------------- *)

\* Two saved tracks that differ at most in the order of their artists.
SameUpToArtistOrder(s, t) ==
    /\ s.name = t.name
    /\ s.added_at = t.added_at
    /\ s.album = t.album
    /\ IsPermutation(s.artists, t.artists)

\* C8: the artist_names of every record from_saved_track makes are sorted
\* ascending and a permutation of the entry's artists; entries that differ
\* only in the order of their artists give equal records.
C8_ArtistNamesSorted ==
    \A r \in Runs : pc[r] = "fetch" =>
        /\ Len(liked_songs[r]) = Len(fetched[r])
        /\ \A i \in 1..Len(fetched[r]) :
             LET names == liked_songs[r][i].artist_names IN
             /\ \A k \in 1..(Len(names) - 1) : StrCmp(names[k], names[k + 1]) <= 0
             /\ IsPermutation(names, fetched[r][i].artists)
        /\ \A i, j \in 1..Len(fetched[r]) :
             SameUpToArtistOrder(fetched[r][i], fetched[r][j]) =>
                 liked_songs[r][i] = liked_songs[r][j]

\* A fetch that has normalized two entries that differ in the order of their
\* artists.
C8_Witness ==
    \E r \in Runs :
        /\ pc[r] = "fetch"
        /\ \E i, j \in 1..Len(fetched[r]) :
             /\ fetched[r][i] # fetched[r][j]
             /\ SameUpToArtistOrder(fetched[r][i], fetched[r][j])
             /\ liked_songs[r][i].artist_names # fetched[r][i].artists

(* ---------------------------- C9 --------------------------------------- *)

\* C9 as the spec states it: the download of the old snapshot starts only
\* after the library has been fetched to exhaustion.
C9_FetchBeforeDownload ==
    \A r \in Runs : Count(log[r], "download") > 0 => Count(log[r], "fetched") > 0

\* C9 as amended: the two steps never overlap and run in program order, the
\* download first: the authorization and the page fetches start only after
\* the download has completed.
C9_DownloadBeforeFetch ==
    \A r \in Runs : \A i \in 1..Len(log[r]) :
        log[r][i] \in {"authorize", "page", "fetched"} =>
            /\ \E j \in 1..(i - 1) : log[r][j] = "download"
            /\ old_liked_songs[r] # Null
            /\ failed[r] # "download"

\* A run that fetched its whole library after the download.
C9_Witness ==
    \E r \in Runs :
        /\ log[r] = <<"creds", "download", "authorize", "page", "page", "fetched">>
        /\ old_liked_songs[r] # Null

(* ---------------------------- C10 -------------------------------------- *)

\* C10: overlapping runs are not kept apart: every finished run has uploaded,
\* and the object is always the whole new text of the run that uploaded last
\* (the object the model started with while no run has uploaded).
C10_LastUploadWins ==
    /\ \A r \in Runs : pc[r] = "done" <=> Count(uploadOrder, r) = 1
    /\ uploadOrder # <<>> => object = new_liked_songs[uploadOrder[Len(uploadOrder)]]
    /\ uploadOrder = <<>> => object \in InitialObjects

\* Both runs have finished; run 1 opened its stream first and uploaded last,
\* so the object is its text although the library is what run 2 fetched, and
\* run 1 wrote over an object that was not the one it had diffed against.
C10_Witness ==
    /\ pc[1] = "done" /\ pc[2] = "done"
    /\ fetchOrder = <<1, 2>>
    /\ uploadOrder = <<2, 1>>
    /\ collection[2] = library
    /\ collection[1] # library
    /\ new_liked_songs[1] # new_liked_songs[2]
    /\ object = new_liked_songs[1]
    /\ old_liked_songs[1] # new_liked_songs[2]

====
